---- MODULE Spec2Model ----
(***************************************************************************)
(* Model of flask_admin/contrib/mongoengine/form.py: the field converter   *)
(* (CustomModelConverter) and the form factory (get_form).                 *)
(*                                                                         *)
(* Python values are modelled as follows.                                  *)
(*   dict      a function with a finite domain of keys; {} is <<>>.        *)
(*   list      a reference [ref, val]: ref = "" is a list object owned by  *)
(*             the call (val holds its items); ref = n is the caller's own *)
(*             list object field_args[n]['validators'], whose items live   *)
(*             in the heap (the field_args variable).                      *)
(*   exception a result record whose status is "raise".                    *)
(* The interpreter state threaded through a call is st = [heap, counter]:  *)
(* heap is the caller's field_args, counter is the creation counter that   *)
(* every newly constructed form field draws from.                          *)
(***************************************************************************)
EXTENDS Integers, Sequences, FiniteSets, TLC

(* ----------------------------- bounds ---------------------------------- *)
\* longest `only` list the caller passes
MaxOnly == 2
\* longest caller-owned validators list; calls that would exceed it are not made
MaxValidators == 3
\* nesting of get_form calls at which the interpreter gives up
RecursionLimit == 3

(* ------------------------- python helpers ------------------------------ *)
\* a fresh, empty list object: the literal []
new_list == [ref |-> "", val |-> <<>>]

\* dict.update: the entries of other win
update(d, other) == other @@ d

\* d[k] = v
setitem(d, k, v) == (k :> v) @@ d

\* the dict left by d.pop(k, default)
popped(d, k) == [x \in (DOMAIN d) \ {k} |-> d[x]]

\* the value returned by d.pop(k, default) / d.get(k, default)
get(d, k, default) == IF k \in DOMAIN d THEN d[k] ELSE default

\* the items of a list object in interpreter state st
items(st, lst) == IF lst.ref = "" THEN lst.val ELSE st.heap[lst.ref]["validators"]

\* lst.append(v): the list reference afterwards
appended(lst, v) == IF lst.ref = "" THEN [lst EXCEPT !.val = Append(@, v)] ELSE lst

\* lst.append(v): the interpreter state afterwards (a caller-owned list is mutated in place)
append_effect(st, lst, v) ==
    IF lst.ref = "" THEN st
    ELSE [st EXCEPT !.heap = [n \in DOMAIN st.heap |->
              IF n = lst.ref
              THEN setitem(st.heap[n], "validators", Append(st.heap[n]["validators"], v))
              ELSE st.heap[n]]]

(* --------------------------- results ----------------------------------- *)
NoError == [type |-> "", msg |-> "", field |-> "", model |-> ""]

NoField == [field_class |-> "", kwargs |-> <<>>, creation_counter |-> 0, inner |-> <<>>]

NoForm == [name |-> <<>>, base_class |-> "", field_dict |-> <<>>]

\* `return field`
ReturnField(f, st) == [status |-> "field", field |-> f, err |-> NoError, st |-> st]

\* `return None` (falling off the end of convert)
ReturnNone(st) == [status |-> "none", field |-> NoField, err |-> NoError, st |-> st]

\* `raise err` out of convert
Raise(err, st) == [status |-> "raise", field |-> NoField, err |-> err, st |-> st]

\* `raise err` out of get_form
RaiseForm(err, st) == [status |-> "raise", form |-> NoForm, err |-> err, st |-> st]

\* `return type(...)` out of get_form
ReturnForm(form, st) == [status |-> "form", form |-> form, err |-> NoError, st |-> st]

\* constructing a form field: an unbound field that remembers its class, its
\* keyword arguments and the next creation counter
Construct(field_class, kwargs, inner, st) ==
    ReturnField([field_class |-> field_class, kwargs |-> kwargs,
                 creation_counter |-> st.counter, inner |-> inner],
                [st EXCEPT !.counter = @ + 1])

\* form.recreate_field: a new unbound field of the same class and arguments
recreate_field(unbound, st) ==
    Construct(unbound.field_class, unbound.kwargs, unbound.inner, st)

(* --------------------------- errors ------------------------------------ *)
\* ValueError('ListField "%s" must have field specified for model %s')
ListFieldError(field, model) ==
    [type |-> "ValueError", msg |-> "ListField must have field specified",
     field |-> field.name, model |-> model.name]

\* ValueError('Invalid model property name %s.%s')
InvalidPropertyError(model, name) ==
    [type |-> "ValueError", msg |-> "Invalid model property name",
     field |-> name, model |-> model.name]

\* TypeError('Model must be a mongoengine Document schema')
NotADocumentError(model) ==
    [type |-> "TypeError", msg |-> "Model must be a mongoengine Document schema",
     field |-> "", model |-> model.name]

\* evaluating `properties in p[0] not in exclude` reads the local p before the
\* loop below has assigned it
UnboundLocalError(model) ==
    [type |-> "UnboundLocalError", msg |-> "local variable p referenced before assignment",
     field |-> "", model |-> model.name]

\* the interpreter's answer to recursion past its limit
RecursionError(model) ==
    [type |-> "RuntimeError", msg |-> "maximum recursion depth exceeded",
     field |-> "", model |-> model.name]

(* ------------------------- document schemas ---------------------------- *)
\* a declared field of a document: the attributes the converter reads
Field(name, cc, ftype, required, choices) ==
    [name |-> name, creation_counter |-> cc, ftype |-> ftype, required |-> required,
     choices |-> choices, to_form_field |-> FALSE, field |-> <<>>, document_type |-> "",
     verbose_name |-> name, help_text |-> "", default |-> "None"]

\* the element field of a ListField (field.field): unnamed, optional
ElementField(ftype, choices, document_type) ==
    [Field("", 0, ftype, FALSE, choices) EXCEPT !.document_type = document_type]

\* a document class: model.__name__, whether it is a mongoengine document, model._fields
Document(name, fields) == [name |-> name, is_document |-> TRUE, fields |-> fields]

Leaf ==
    Document("Leaf", [t |-> Field("t", 1, "StringField", TRUE, <<>>),
                      s |-> Field("s", 2, "StringField", FALSE, <<"x", "y">>)])

\* a document that embeds itself
Node ==
    Document("Node", [v |-> Field("v", 1, "StringField", FALSE, <<>>),
                      child |-> [Field("child", 2, "EmbeddedDocumentField", FALSE, <<>>)
                                     EXCEPT !.document_type = "Node"]])

\* two documents that embed each other, one of them through a list
Ping ==
    Document("Ping", [pongs |-> [Field("pongs", 1, "ListField", FALSE, <<>>) EXCEPT
                         !.field = <<ElementField("EmbeddedDocumentField", <<>>, "Pong")>>]])

Pong ==
    Document("Pong", [ping |-> [Field("ping", 1, "EmbeddedDocumentField", FALSE, <<>>)
                                    EXCEPT !.document_type = "Ping"]])

\* field.document_type_obj: the document class an embedded field names
document_type_obj(field) ==
    CASE field.document_type = "Leaf" -> Leaf
      [] field.document_type = "Node" -> Node
      [] field.document_type = "Ping" -> Ping
      [] field.document_type = "Pong" -> Pong

\* the element fields a ListField is declared with
ElementFields ==
    { ElementField("StringField", <<>>, ""),
      ElementField("StringField", <<"x", "y">>, ""),
      ElementField("ReferenceField", <<>>, "Leaf"),
      ElementField("EmbeddedDocumentField", <<>>, "Leaf") }

\* the kinds of field a document declares: type, element field, document named
FieldShapes ==
    { [ftype |-> t, field |-> <<>>, document_type |-> ""] :
          t \in {"StringField", "UUIDField", "DateTimeField", "FileField", "ImageField"} }
    \cup { [ftype |-> "ReferenceField", field |-> <<>>, document_type |-> "Leaf"] }
    \cup { [ftype |-> "ListField", field |-> e, document_type |-> ""] :
              e \in {<<>>} \cup { <<x>> : x \in ElementFields } }
    \cup { [ftype |-> "EmbeddedDocumentField", field |-> <<>>, document_type |-> d] :
              d \in {"Leaf", "Node", "Ping"} }

\* the declarations of a field named a, declared second
FieldsA ==
    { [Field("a", 2, s.ftype, r, c) EXCEPT !.field = s.field,
                                           !.document_type = s.document_type,
                                           !.to_form_field = h] :
          s \in FieldShapes, r \in BOOLEAN, c \in {<<>>, <<"x", "y">>}, h \in BOOLEAN }

\* a document declaring b first and a second
Article(fa) ==
    Document("Article", [b |-> [Field("b", 1, "StringField", TRUE, <<>>) EXCEPT !.default = "0"],
                         a |-> fa])

\* a document with a field named model_class
Page ==
    Document("Page", [model_class |-> Field("model_class", 1, "StringField", TRUE, <<>>),
                      a |-> Field("a", 2, "StringField", FALSE, <<>>)])

\* an object that is no document class
NotADocument == [name |-> "dict", is_document |-> FALSE, fields |-> <<>>]

\* a pre-built form field the caller passes in extra_fields
ExtraField(name) ==
    [field_class |-> "BooleanField", kwargs |-> [label |-> name, validators |-> new_list],
     creation_counter |-> 0, inner |-> <<>>]

(* --------------------------- converter --------------------------------- *)
\* the registered conversions of a converter that has none for list fields
converters_without_list ==
    {"StringField", "DateTimeField", "EmbeddedDocumentField",
     "ReferenceField", "FileField", "ImageField"}

\* self.converters: the field type names with a registered conversion
\* (those of the base ModelConverter and the ones registered in this class)
converters ==
    {"StringField", "DateTimeField", "ListField", "EmbeddedDocumentField",
     "ReferenceField", "FileField", "ImageField"}

\* self.coerce(ftype): the coercion of a choice field of that type
coerce(ftype) == [coerce |-> ftype]

\* _get_field_override: the override class registered in view.form_overrides, "" for None
get_field_override(converter, name) ==
    IF DOMAIN converter.view.form_overrides # {}
    THEN get(converter.view.form_overrides, name, "")
    ELSE ""

\* isinstance(field, FieldPlaceholder)
IsPlaceholder(field) == field.ftype = "FieldPlaceholder"

\* FieldPlaceholder(field)
FieldPlaceholder(unbound) == [ftype |-> "FieldPlaceholder", field |-> unbound]

\* the keyword arguments convert starts from
BaseKwargs(field) ==
    [label |-> field.verbose_name, description |-> field.help_text,
     validators |-> new_list, filters |-> new_list, default |-> field.default]

\* if field_args: kwargs.update(field_args)
MergedKwargs(field, field_args) ==
    IF DOMAIN field_args # {} THEN update(BaseKwargs(field), field_args) ELSE BaseKwargs(field)

\* the presence validator of a converter that takes every field for optional
PresenceAlwaysOptional(field) == "Optional"

\* validators.Required() for a mandatory field, validators.Optional() otherwise
PresenceValidator(field) == IF field.required THEN "Required" ELSE "Optional"

\* the choice arguments of a converter that keeps the caller's own 'choices' entry
ChoiceKwargsKeepCallers(field, kwargs) ==
    IF "choices" \in DOMAIN kwargs THEN kwargs ELSE setitem(kwargs, "choices", field.choices)

\* kwargs['choices'] = field.choices, and the coercion of a registered type
ChoiceKwargs(field, kwargs) ==
    LET k == setitem(kwargs, "choices", field.choices)
    IN  IF field.ftype \in converters THEN setitem(k, "coerce", coerce(field.ftype)) ELSE k

\* the select field of a field with choices: kwargs.pop('multiple', False) decides
SelectField(kwargs, st) ==
    IF get(kwargs, "multiple", FALSE)
    THEN Construct("SelectMultipleField", popped(kwargs, "multiple"), <<>>, st)
    ELSE Construct("SelectField", popped(kwargs, "multiple"), <<>>, st)

\* field.to_form_field(model, kwargs): the field's own hook builds the form field
to_form_field(model, field, kwargs, st) == Construct("CustomField", kwargs, <<>>, st)

\* the conversions inherited from the base converter: they build the form field
\* of the type from the keyword arguments
conv_Inherited(field_class, model, field, kwargs, st) == Construct(field_class, kwargs, <<>>, st)

conv_DateTime(model, field, kwargs, st) ==
    conv_Inherited("DateTimeField", model, field,
                   setitem(kwargs, "widget", "DateTimePickerWidget"), st)

conv_Reference(model, field, kwargs, st) ==
    conv_Inherited("ModelSelectField", model, field,
                   setitem(setitem(setitem(kwargs, "widget", "Select2Widget"),
                                   "allow_blank", ~ field.required),
                           "model", field.document_type), st)

conv_File(model, field, kwargs, st) == Construct("MongoFileField", kwargs, <<>>, st)

conv_image(model, field, kwargs, st) == Construct("MongoImageField", kwargs, <<>>, st)

\* field.field is None
ElementMissing(field) == field.field = <<>>

\* the alphabetical rank of a field name
NameRank(name) ==
    CASE name = "a" -> 1
      [] name = "b" -> 2
      [] name = "child" -> 3
      [] name = "model_class" -> 4
      [] name = "ping" -> 5
      [] name = "pongs" -> 6
      [] name = "s" -> 7
      [] name = "t" -> 8
      [] name = "v" -> 9
      [] OTHER -> 10

RECURSIVE SortedBy(_, _, _)
\* sorted(pairs, key=...): the (name, field) pairs of a dict in ascending key order
SortedBy(fields, names, byName) ==
    IF names = {} THEN <<>>
    ELSE LET key(n) == IF byName THEN NameRank(n) ELSE fields[n].creation_counter
             first == CHOOSE n \in names : \A m \in names : key(n) <= key(m)
         IN  <<[name |-> first, status |-> "ok", p |-> fields[first], err |-> NoError]>>
             \o SortedBy(fields, names \ {first}, byName)

\* the properties in the alphabetical order of their names
sorted_by_name(model) == SortedBy(model.fields, DOMAIN model.fields, TRUE)

\* properties = sorted(model._fields items, key = creation_counter)
sorted_properties(model) == SortedBy(model.fields, DOMAIN model.fields, FALSE)

\* `name in extra_fields` / extra_fields[name]: extra_fields is a dict, kept as
\* the sequence of its (name, field) items in iteration order
HasExtra(extra, name) == \E i \in 1..Len(extra) : extra[i].name = name

ExtraOf(extra, name) == extra[CHOOSE i \in 1..Len(extra) : extra[i].name = name].field

\* a find that skips the names it cannot resolve
find_lenient(model, extra, name) ==
    IF extra # <<>> /\ HasExtra(extra, name)
    THEN [name |-> name, status |-> "ok",
          p |-> FieldPlaceholder(ExtraOf(extra, name)), err |-> NoError]
    ELSE IF name \in DOMAIN model.fields
    THEN [name |-> name, status |-> "ok", p |-> model.fields[name], err |-> NoError]
    ELSE [name |-> name, status |-> "ok", p |-> Field(name, 0, "", FALSE, <<>>), err |-> NoError]

\* find(name) of get_form: the extra field's placeholder, else the declared
\* field, else ValueError
find(model, extra, name) ==
    IF extra # <<>> /\ HasExtra(extra, name)
    THEN [name |-> name, status |-> "ok",
          p |-> FieldPlaceholder(ExtraOf(extra, name)), err |-> NoError]
    ELSE IF name \in DOMAIN model.fields
    THEN [name |-> name, status |-> "ok", p |-> model.fields[name], err |-> NoError]
    ELSE [name |-> name, status |-> "raise", p |-> NoField,
          err |-> InvalidPropertyError(model, name)]

\* properties = ((p, find(p)) for p in only): find runs when the loop reaches the name
only_properties(model, extra, only_) ==
    [i \in 1..Len(only_) |-> find(model, extra, only_[i])]

\* properties = (p for p in properties in p[0] not in exclude): the generator's
\* iterable `properties in p[0] not in exclude` is evaluated on the spot, and
\* reads the local p before the loop below has assigned it
exclude_properties(model, properties, exclude_) ==
    [status |-> "raise", properties |-> <<>>, err |-> UnboundLocalError(model)]

RECURSIVE convert(_, _, _, _, _, _)
RECURSIVE conv_List(_, _, _, _, _, _)
RECURSIVE conv_EmbeddedDocument(_, _, _, _, _, _)
RECURSIVE get_form(_, _, _, _, _, _, _, _)
RECURSIVE create_fields(_, _, _, _, _, _, _, _)
RECURSIVE contribute_extra(_, _, _, _)

\* self.converters[ftype](model, field, kwargs)
dispatch(converter, model, field, kwargs, st, stack) ==
    CASE field.ftype = "DateTimeField" -> conv_DateTime(model, field, kwargs, st)
      [] field.ftype = "ListField" -> conv_List(converter, model, field, kwargs, st, stack)
      [] field.ftype = "EmbeddedDocumentField" ->
             conv_EmbeddedDocument(converter, model, field, kwargs, st, stack)
      [] field.ftype = "ReferenceField" -> conv_Reference(model, field, kwargs, st)
      [] field.ftype = "FileField" -> conv_File(model, field, kwargs, st)
      [] field.ftype = "ImageField" -> conv_image(model, field, kwargs, st)
      [] OTHER -> conv_Inherited(field.ftype, model, field, kwargs, st)

\* CustomModelConverter.convert(model, field, field_args)
convert(converter, model, field, field_args, st, stack) ==
    IF IsPlaceholder(field) THEN recreate_field(field.field, st)
    ELSE
    LET merged == MergedKwargs(field, field_args)
        presence == PresenceValidator(field)
        st1 == append_effect(st, merged["validators"], presence)
        kwargs == setitem(merged, "validators", appended(merged["validators"], presence))
        override == get_field_override(converter, field.name)
    IN  IF field.choices # <<>> THEN SelectField(ChoiceKwargs(field, kwargs), st1)
        ELSE IF field.to_form_field THEN to_form_field(model, field, kwargs, st1)
        ELSE IF override # "" THEN Construct(override, kwargs, <<>>, st1)
        ELSE IF field.ftype \in converters
             THEN dispatch(converter, model, field, kwargs, st1, stack)
        ELSE ReturnNone(st1)

\* CustomModelConverter.conv_List
conv_List(converter, model, field, kwargs, st, stack) ==
    IF ElementMissing(field) THEN Raise(ListFieldError(field, model), st)
    ELSE
    LET element == field.field[1]
    IN  IF element.ftype = "ReferenceField"
        THEN Construct("ModelSelectMultipleField",
                       setitem(setitem(kwargs, "widget", "Select2Widget(multiple=True)"),
                               "model", element.document_type), <<>>, st)
        ELSE IF element.choices # <<>>
        THEN convert(converter, model, element, setitem(kwargs, "multiple", TRUE), st, stack)
        ELSE LET r == convert(converter, model, element, <<>>, st, stack)
             IN  IF r.status = "raise" THEN r
                 ELSE Construct("InlineFieldList",
                                [validators |-> new_list, filters |-> new_list,
                                 min_entries |-> 0],
                                IF r.status = "field" THEN <<r.field>> ELSE <<>>, r.st)

\* CustomModelConverter.conv_EmbeddedDocument
conv_EmbeddedDocument(converter, model, field, kwargs, st, stack) ==
    LET r == get_form(document_type_obj(field), converter, <<>>, {}, <<>>, <<>>, st, stack)
    IN  IF r.status = "raise" THEN Raise(r.err, r.st)
        ELSE Construct("ModelFormField",
                       [validators |-> new_list, filters |-> new_list,
                        widget |-> "InlineFormWidget", model |-> field.document_type],
                       <<r.form>>, r.st)

\* field_args.get(name): the caller's keyword arguments for the field; its
\* 'validators' entry is the caller's own list object
field_args_get(field_args, name) ==
    IF name \notin DOMAIN field_args THEN <<>>
    ELSE IF "validators" \in DOMAIN field_args[name]
    THEN setitem(field_args[name], "validators", [ref |-> name, val |-> <<>>])
    ELSE field_args[name]

\* the loop `for name, p in properties`: convert each property in turn and keep
\* what is not None
create_fields(converter, model, properties, i, field_args, field_dict, st, stack) ==
    IF i > Len(properties) THEN [status |-> "ok", field_dict |-> field_dict,
                                 err |-> NoError, st |-> st]
    ELSE IF properties[i].status = "raise"
    THEN [status |-> "raise", field_dict |-> field_dict, err |-> properties[i].err, st |-> st]
    ELSE
    LET name == properties[i].name
        r == convert(converter, model, properties[i].p, field_args_get(field_args, name),
                     st, stack)
    IN  IF r.status = "raise"
        THEN [status |-> "raise", field_dict |-> field_dict, err |-> r.err, st |-> r.st]
        ELSE create_fields(converter, model, properties, i + 1, field_args,
                           IF r.status = "field" THEN setitem(field_dict, name, r.field)
                           ELSE field_dict,
                           r.st, stack)

\* the loop `for name, field in iteritems(extra_fields)`
contribute_extra(extra, i, field_dict, st) ==
    IF i > Len(extra) THEN [field_dict |-> field_dict, st |-> st]
    ELSE LET r == recreate_field(extra[i].field, st)
         IN  contribute_extra(extra, i + 1, setitem(field_dict, extra[i].name, r.field), r.st)

\* get_form(model, converter, base_class, only, exclude, field_args, extra_fields);
\* stack holds the documents whose get_form calls are still running
get_form(model, converter, only_, exclude_, field_args, extra, st, stack) ==
    IF ~ model.is_document THEN RaiseForm(NotADocumentError(model), st)
    ELSE IF Len(stack) >= RecursionLimit THEN RaiseForm(RecursionError(model), st)
    ELSE
    LET sorted == sorted_properties(model)
        filtered == exclude_properties(model, sorted, exclude_)
        properties == IF only_ # <<>> THEN only_properties(model, extra, only_)
                      ELSE IF exclude_ # {} THEN filtered.properties
                      ELSE sorted
    IN  IF only_ = <<>> /\ exclude_ # {} /\ filtered.status = "raise"
        THEN RaiseForm(filtered.err, st)
        ELSE
        LET created == create_fields(converter, model, properties, 1, field_args, <<>>,
                                     st, Append(stack, model.name))
            withExtra == IF only_ = <<>> /\ extra # <<>>
                         THEN contribute_extra(extra, 1, created.field_dict, created.st)
                         ELSE [field_dict |-> created.field_dict, st |-> created.st]
        IN  IF created.status = "raise" THEN RaiseForm(created.err, created.st)
            ELSE ReturnForm([name |-> <<model.name, "Form">>, base_class |-> "BaseForm",
                             field_dict |-> setitem(withExtra.field_dict, "model_class",
                                                    [document |-> model.name])],
                            withExtra.st)

(* ------------------------ the form type -------------------------------- *)
\* whether an attribute of the form type is a form field
IsFormField(v) == "field_class" \in DOMAIN v

RECURSIVE ByCreation(_, _)
ByCreation(field_dict, names) ==
    IF names = {} THEN <<>>
    ELSE LET first == CHOOSE n \in names : \A m \in names :
                          field_dict[n].creation_counter <= field_dict[m].creation_counter
         IN  <<first>> \o ByCreation(field_dict, names \ {first})

\* the fields of a form type, in the order the form presents them: the
\* attributes that are form fields, in the order they were created
FormFields(form) ==
    ByCreation(form.field_dict, {n \in DOMAIN form.field_dict : IsFormField(form.field_dict[n])})

(* --------------------------- the callers ------------------------------- *)
VARIABLES model, only, exclude, field_args, extra_fields, form_overrides, last

vars == <<model, only, exclude, field_args, extra_fields, form_overrides, last>>

\* the names a caller lists in `only`: names of declared fields and of extra
\* fields; each is a name of neither for some document and extra_fields
OnlyNames == {"a", "b", "model_class", "bonus"}

OnlyLists == UNION { [1..n -> OnlyNames] : n \in 0..MaxOnly }

\* the documents the form factory is called on with only, exclude and extra fields
FormModels ==
    { Article(fa) : fa \in { f \in FieldsA :
          /\ ~ f.to_form_field
          /\ ~ f.required
          /\ f.choices = <<>>
          /\ \/ f.ftype \in {"StringField", "UUIDField"}
             \/ f.ftype = "ListField" /\ f.field = <<>>
             \/ f.ftype = "EmbeddedDocumentField" /\ f.document_type \in {"Leaf", "Node"} } }
    \cup {Page, NotADocument}

\* the field_args a caller passes: keyword arguments for the field a
FieldArgsChoices ==
    { <<>>,
      [a |-> [validators |-> <<"Length">>]],
      [a |-> [choices |-> <<"q">>, multiple |-> TRUE]],
      [a |-> [default |-> "7", multiple |-> FALSE, validators |-> <<>>]] }

ExtraItem(name) == [name |-> name, field |-> ExtraField(name)]

\* the extra_fields a caller passes, as the items of the dict in iteration order
ExtraChoices ==
    { <<>>, <<ExtraItem("bonus")>>, <<ExtraItem("model_class")>>,
      <<ExtraItem("bonus"), ExtraItem("b")>> }

\* view.form_overrides
OverrideChoices == { <<>>, [a |-> "TextAreaField"] }

NoCall ==
    [op |-> "none", name |-> "", before |-> <<>>, status |-> "", form |-> NoForm,
     field |-> NoField, err |-> NoError]

Init ==
    /\ \/ /\ model \in { Article(fa) : fa \in FieldsA }
          /\ only \in {<<>>, <<"a">>}
          /\ exclude = {}
          /\ extra_fields = <<>>
          /\ field_args \in FieldArgsChoices
          /\ form_overrides \in OverrideChoices
       \/ /\ model \in FormModels
          /\ only \in OnlyLists
          /\ exclude \in {{}, {"a"}}
          /\ extra_fields \in ExtraChoices
          /\ field_args \in {<<>>, [a |-> [validators |-> <<"Length">>]]}
          /\ form_overrides = <<>>
    /\ last = NoCall

\* the converter the admin view hands to get_form: CustomModelConverter(view)
Converter == [view |-> [form_overrides |-> form_overrides]]

\* the caller's validator lists stay within the bound
HeapWithinBound(heap) ==
    \A n \in DOMAIN heap :
        "validators" \in DOMAIN heap[n] => Len(heap[n]["validators"]) <= MaxValidators

\* a caller calls get_form(model, converter, only=..., exclude=..., field_args=..., extra_fields=...)
CallGetForm ==
    LET r == get_form(model, Converter, only, exclude, field_args, extra_fields,
                      [heap |-> field_args, counter |-> 1], <<>>)
    IN  /\ HeapWithinBound(r.st.heap)
        /\ field_args' = r.st.heap
        /\ last' = [op |-> "get_form", name |-> "", before |-> field_args,
                    status |-> r.status, form |-> r.form, field |-> NoField, err |-> r.err]
        /\ UNCHANGED <<model, only, exclude, extra_fields, form_overrides>>

\* a caller calls converter.convert(model, model._fields[n], field_args.get(n))
CallConvert(n) ==
    LET r == convert(Converter, model, model.fields[n], field_args_get(field_args, n),
                     [heap |-> field_args, counter |-> 1], <<>>)
    IN  /\ HeapWithinBound(r.st.heap)
        /\ field_args' = r.st.heap
        /\ last' = [op |-> "convert", name |-> n, before |-> field_args,
                    status |-> r.status, form |-> NoForm, field |-> r.field, err |-> r.err]
        /\ UNCHANGED <<model, only, exclude, extra_fields, form_overrides>>

Next == CallGetForm \/ \E n \in DOMAIN model.fields : CallConvert(n)

Spec == Init /\ [][Next]_vars

(* ----------------------- views used by the claims ---------------------- *)
\* the validators a form field carries, given the caller's lists as they stand in heap
ValidatorsIn(heap, f) == items([heap |-> heap], f.kwargs["validators"])

ValidatorsOf(f) == ValidatorsIn(field_args, f)

IsPresence(v) == v \in {"Required", "Optional"}

PresenceCount(vs) == Cardinality({i \in 1..Len(vs) : IsPresence(vs[i])})

\* the presence validator a field of that requiredness calls for
Expected(f) == IF f.required THEN "Required" ELSE "Optional"

\* the validators list the caller handed in for name n before the last call
StartList(n) ==
    IF n \in DOMAIN last.before /\ "validators" \in DOMAIN last.before[n]
    THEN last.before[n]["validators"]
    ELSE <<>>

Overridden(n) == n \in DOMAIN form_overrides

\* the last call was get_form on a document and returned a form type
ReturnedForm == last.op = "get_form" /\ last.status = "form"

\* the last call was convert on the declared field last.name
Converted == last.op = "convert"

LastIndex(seq, n) == CHOOSE i \in 1..Len(seq) : seq[i] = n /\ \A j \in (i+1)..Len(seq) : seq[j] # n

FirstIndex(seq, n) == CHOOSE i \in 1..Len(seq) : seq[i] = n /\ \A j \in 1..(i-1) : seq[j] # n

ExtraIndex(n) == CHOOSE i \in 1..Len(extra_fields) : extra_fields[i].name = n

IsExtra(n) == HasExtra(extra_fields, n)

FormNames(form) == {n \in DOMAIN form.field_dict : IsFormField(form.field_dict[n])}

\* a declared list field with no element field
ListWithoutElement(f) == f.ftype = "ListField" /\ f.field = <<>>

\* a declared field whose conversion reaches the converter registered for its type
ReachesTypeConverter(f) == f.choices = <<>> /\ ~ f.to_form_field /\ ~ Overridden(f.name)

\* a declared field whose conversion is not None
ConvertsToField(f) ==
    f.choices # <<>> \/ f.to_form_field \/ Overridden(f.name) \/ f.ftype \in converters

\* the form field classes the conversion of a declared field can give
ClassesOf(f) ==
    IF f.choices # <<>> THEN {"SelectField", "SelectMultipleField"}
    ELSE IF f.to_form_field THEN {"CustomField"}
    ELSE IF Overridden(f.name) THEN {form_overrides[f.name]}
    ELSE CASE f.ftype = "ListField" ->
                  {"ModelSelectMultipleField", "SelectMultipleField", "InlineFieldList"}
           [] f.ftype = "EmbeddedDocumentField" -> {"ModelFormField"}
           [] f.ftype = "ReferenceField" -> {"ModelSelectField"}
           [] f.ftype = "FileField" -> {"MongoFileField"}
           [] f.ftype = "ImageField" -> {"MongoImageField"}
           [] OTHER -> {f.ftype}

\* v is the form field recreated from the extra field named n
IsRecreatedExtra(v, n) ==
    /\ IsFormField(v)
    /\ v.field_class = ExtraField(n).field_class
    /\ v.kwargs = ExtraField(n).kwargs

\* v is a form field converted from the declared field f
IsConvertedFrom(v, f) == IsFormField(v) /\ v.field_class \in ClassesOf(f)

(* ------------------------------- C1 ------------------------------------ *)
\* C1: the fields of a form type that get_form returns are in declaration
\* order (ascending creation counter of the declared fields) when `only` is
\* not given, with the extra fields after them in the iteration order of
\* extra_fields; and in the order of the names in `only` (the last place of a
\* name listed twice) when `only` is given.
C1_FieldOrder ==
    ReturnedForm =>
        LET order == FormFields(last.form)
        IN  \A i, j \in 1..Len(order) : i < j =>
                LET x == order[i]
                    y == order[j]
                IN  IF only # <<>> THEN LastIndex(only, x) < LastIndex(only, y)
                    ELSE IF IsExtra(x) /\ IsExtra(y) THEN ExtraIndex(x) < ExtraIndex(y)
                    ELSE IF IsExtra(x) THEN FALSE
                    ELSE IF IsExtra(y) THEN TRUE
                    ELSE model.fields[x].creation_counter < model.fields[y].creation_counter

\* a form whose declaration order (b, a) is not the alphabetical order
C1_Witness ==
    /\ ReturnedForm
    /\ only = <<>>
    /\ FormFields(last.form) = <<"b", "a">>

(* ------------------------------- C2 ------------------------------------ *)
\* C2 as claimed: every form field convert produces for a declared field
\* carries exactly one presence validator, 'required' for a mandatory field
\* and 'optional' otherwise.
C2_ExactlyOnePresence ==
    (Converted /\ last.status = "field") =>
        LET vs == ValidatorsOf(last.field)
        IN  /\ PresenceCount(vs) = 1
            /\ \E i \in 1..Len(vs) : vs[i] = Expected(model.fields[last.name])

\* C2 as amended: convert appends exactly one presence validator ('required'
\* for a mandatory field, 'optional' otherwise) to the list it starts from (a
\* new list, or the caller's own 'validators' list as it stands at the call),
\* and the field is built with that list; a list of choice elements adds the
\* element's presence validator as well; a list of other, non-reference
\* elements and an embedded document are built with an empty validators list.
C2_PresenceAppended ==
    (Converted /\ last.status = "field") =>
        LET f == model.fields[last.name]
            vs == ValidatorsOf(last.field)
            start == StartList(last.name)
        IN  IF ReachesTypeConverter(f) /\ f.ftype = "EmbeddedDocumentField" THEN vs = <<>>
            ELSE IF ReachesTypeConverter(f) /\ f.ftype = "ListField"
                    /\ f.field[1].ftype # "ReferenceField"
            THEN IF f.field[1].choices # <<>>
                 THEN vs = start \o <<Expected(f), Expected(f.field[1])>>
                 ELSE vs = <<>>
            ELSE vs = start \o <<Expected(f)>>

\* a mandatory plain field converted with the caller's own validators list
C2_Witness ==
    /\ Converted
    /\ last.status = "field"
    /\ model.fields[last.name].required
    /\ StartList(last.name) = <<"Length">>
    /\ ValidatorsOf(last.field) = <<"Length", "Required">>

(* ------------------------------- C3 ------------------------------------ *)
\* C3: with `only` not given and a non-empty `exclude` that names the one
\* field that is not a plain string field, get_form returns a form type whose
\* fields are the declared fields not in `exclude`, in declaration order,
\* plus the extra fields.
C3_ExcludeDropsNames ==
    (/\ last.op = "get_form"
     /\ model.is_document
     /\ only = <<>>
     /\ exclude # {}
     /\ \A n \in (DOMAIN model.fields) \ exclude : model.fields[n].ftype = "StringField")
    => /\ last.status = "form"
       /\ FormNames(last.form) \ {extra_fields[i].name : i \in 1..Len(extra_fields)}
              = ((DOMAIN model.fields) \ exclude)
                    \ {extra_fields[i].name : i \in 1..Len(extra_fields)}

(* ------------------------------- C4 ------------------------------------ *)
\* C4: when `only` is non-empty and all its names resolve, the field names of
\* the form are exactly the names in `only` whose conversion is not None; a
\* name of extra_fields takes the recreated extra field, any other name the
\* converted declared field; an extra field not in `only` is absent.
C4_OnlySelectsExactly ==
    (/\ ReturnedForm
     /\ only # <<>>
     /\ \A i \in 1..Len(only) : IsExtra(only[i]) \/ only[i] \in DOMAIN model.fields)
    => /\ FormNames(last.form) =
              {only[i] : i \in {k \in 1..Len(only) :
                  IsExtra(only[k]) \/ ConvertsToField(model.fields[only[k]])}}
       /\ \A n \in FormNames(last.form) :
              IF IsExtra(n)
              THEN IsRecreatedExtra(last.form.field_dict[n], n)
              ELSE IsConvertedFrom(last.form.field_dict[n], model.fields[n])

(* ------------------------------- C5 ------------------------------------ *)
\* the validators and the default of the fields of two forms agree, each form
\* taken with the caller's lists as they stood when it was returned
SameConfiguration(form1, heap1, form2, heap2) ==
    /\ FormNames(form1) = FormNames(form2)
    /\ \A n \in FormNames(form1) \cap FormNames(form2) :
           /\ ValidatorsIn(heap1, form1.field_dict[n]) = ValidatorsIn(heap2, form2.field_dict[n])
           /\ get(form1.field_dict[n].kwargs, "default", "None")
                  = get(form2.field_dict[n].kwargs, "default", "None")

\* C5: a get_form call that follows a get_form call with the same arguments
\* returns a form type with the same field names and, field by field, the
\* same validators and default, and the first call left field_args as it was.
C5_RepeatedCallsAgree ==
    [][ (/\ last.op = "get_form"
         /\ last.status = "form"
         /\ last'.op = "get_form"
         /\ last' # last)
        => /\ last'.status = "form"
           /\ SameConfiguration(last.form, field_args, last'.form, field_args')
           /\ field_args = last.before ]_vars

(* ------------------------------- C6 ------------------------------------ *)
\* the caller asked for a multiple selection of field n in the last call
MultipleRequested(n) ==
    /\ n \in DOMAIN last.before
    /\ "multiple" \in DOMAIN last.before[n]
    /\ last.before[n]["multiple"]

IsSelectOf(v, f, n) ==
    /\ v.field_class = (IF MultipleRequested(n) THEN "SelectMultipleField" ELSE "SelectField")
    /\ v.kwargs["choices"] = f.choices
    /\ "multiple" \notin DOMAIN v.kwargs

\* C6: converting a declared field with a non-empty choice set returns a
\* select field (multiple when the 'multiple' flag is true in the keyword
\* arguments, single otherwise) whose choices are the declared field's,
\* whatever its type, hook, override and field_args are; so are the fields a
\* form type gets from such declared fields.
C6_ChoicesGiveSelect ==
    /\ (Converted /\ model.fields[last.name].choices # <<>>) =>
           /\ last.status = "field"
           /\ IsSelectOf(last.field, model.fields[last.name], last.name)
    /\ ReturnedForm =>
           \A n \in (DOMAIN last.form.field_dict \cap DOMAIN model.fields) \ {"model_class"} :
               (~ IsExtra(n) /\ model.fields[n].choices # <<>>) =>
                   IsSelectOf(last.form.field_dict[n], model.fields[n], n)

\* a list field with choices, a hook and an override, converted with the
\* caller's own 'choices' entry
C6_Witness ==
    /\ Converted
    /\ last.status = "field"
    /\ model.fields[last.name].choices = <<"x", "y">>
    /\ model.fields[last.name].ftype = "ListField"
    /\ model.fields[last.name].to_form_field
    /\ Overridden(last.name)
    /\ last.name \in DOMAIN last.before
    /\ "choices" \in DOMAIN last.before[last.name]
    /\ last.field.field_class = "SelectMultipleField"

(* ------------------------------- C7 ------------------------------------ *)
\* the declared field n is among the properties get_form converts
Selected(n) == only = <<>> \/ (~ IsExtra(n) /\ \E i \in 1..Len(only) : only[i] = n)

\* C7 as claimed: converting a list field without element field always fails
\* with the ValueError naming the field and the model, and get_form on a
\* document that declares such a field returns no form type.
C7_MissingElementAlwaysFails ==
    /\ (Converted /\ ListWithoutElement(model.fields[last.name])) =>
           /\ last.status = "raise"
           /\ last.err = [type |-> "ValueError", msg |-> "ListField must have field specified",
                          field |-> last.name, model |-> model.name]
    /\ (last.op = "get_form" /\ \E n \in DOMAIN model.fields :
                                    ListWithoutElement(model.fields[n])) =>
           last.status = "raise"

\* C7 as amended: converting a list field without element field fails with
\* the ValueError naming the field and the model when the field declares no
\* choices, has no conversion hook and no override is registered for its
\* name; get_form returns no form type when such a field is among the
\* properties it converts (all of them, or those `only` names).
C7_MissingElementFails ==
    /\ (/\ Converted
        /\ ListWithoutElement(model.fields[last.name])
        /\ ReachesTypeConverter(model.fields[last.name])) =>
           /\ last.status = "raise"
           /\ last.err = [type |-> "ValueError", msg |-> "ListField must have field specified",
                          field |-> last.name, model |-> model.name]
    /\ (last.op = "get_form" /\ \E n \in DOMAIN model.fields :
                                    /\ ListWithoutElement(model.fields[n])
                                    /\ ReachesTypeConverter(model.fields[n])
                                    /\ Selected(n)) =>
           last.status = "raise"

\* get_form fails on a document whose list field has no element field
C7_Witness ==
    /\ last.op = "get_form"
    /\ last.status = "raise"
    /\ only = <<>>
    /\ exclude = {}
    /\ last.err = [type |-> "ValueError", msg |-> "ListField must have field specified",
                   field |-> "a", model |-> "Article"]

(* ------------------------------- C8 ------------------------------------ *)
Unresolved(n) == n \notin DOMAIN model.fields /\ ~ IsExtra(n)

\* a declared field whose conversion can fail: a list or an embedded document
MayFail(n) ==
    /\ n \in DOMAIN model.fields
    /\ ~ IsExtra(n)
    /\ model.fields[n].ftype \in {"ListField", "EmbeddedDocumentField"}

FirstUnresolved == CHOOSE k \in 1..Len(only) : Unresolved(only[k]) /\
                       \A j \in 1..(k-1) : ~ Unresolved(only[j])

\* C8 as claimed: with a name in `only` that is neither a declared field nor
\* an extra field, get_form raises the ValueError naming the model and that
\* name, wherever the name stands and whatever the other names are.
C8_UnresolvedRaisesInvalidName ==
    (/\ last.op = "get_form"
     /\ model.is_document
     /\ \E i \in 1..Len(only) : Unresolved(only[i]))
    => /\ last.status = "raise"
       /\ last.err.type = "ValueError"
       /\ last.err.msg = "Invalid model property name"
       /\ Unresolved(last.err.field)
       /\ last.err.model = model.name

\* C8 as amended: get_form returns no form type and raises an error; the
\* error is the ValueError naming the model and the first unresolved name,
\* unless a list or embedded-document field listed before that name fails to
\* convert, and then it is that field's error.
C8_UnresolvedRaises ==
    (/\ last.op = "get_form"
     /\ model.is_document
     /\ \E i \in 1..Len(only) : Unresolved(only[i]))
    => /\ last.status = "raise"
       /\ \/ last.err = [type |-> "ValueError", msg |-> "Invalid model property name",
                         field |-> only[FirstUnresolved], model |-> model.name]
          \/ /\ last.err.msg \in {"ListField must have field specified",
                                  "maximum recursion depth exceeded"}
             /\ \E j \in 1..(FirstUnresolved - 1) : MayFail(only[j])

\* the unresolved name stands second, after a name that converts
C8_Witness ==
    /\ last.op = "get_form"
    /\ Len(only) = 2
    /\ ~ Unresolved(only[1])
    /\ Unresolved(only[2])
    /\ last.status = "raise"
    /\ last.err.msg = "Invalid model property name"
    /\ last.err.field = only[2]

(* ------------------------------- C9 ------------------------------------ *)
\* C9: in a form type get_form returns, every key of the field mapping that
\* is the name of a declared field or of an extra field (also the name
\* model_class) holds the field recreated from the extra field of that name,
\* or else the field converted from the declared field of that name; every
\* other key but the model_class attribute is absent.
C9_KeysHoldTheirFields ==
    ReturnedForm =>
        \A k \in DOMAIN last.form.field_dict :
            IF IsExtra(k) THEN IsRecreatedExtra(last.form.field_dict[k], k)
            ELSE IF k \in DOMAIN model.fields
            THEN IsConvertedFrom(last.form.field_dict[k], model.fields[k])
            ELSE k = "model_class"

(* ------------------------------- C10 ----------------------------------- *)
\* C10: no get_form or convert call ends by running the recursion
\* get_form -> convert -> conv_EmbeddedDocument -> get_form into the
\* interpreter's recursion limit (no document here nests deeper than the
\* limit without a cycle).
C10_RecursionBounded ==
    last.op # "none" => last.err.msg # "maximum recursion depth exceeded"

====
